---- MODULE Spec2Model ----
(***************************************************************************)
(* A model of scripts/docs-guardrails.mjs: the manifest resolver, the tool *)
(* name extractor, the directory walker, the coverage checker, the banned  *)
(* domain scanner and main's report / exit policy.                         *)
(*                                                                         *)
(* A JavaScript string is a sequence of one-character strings; Code gives  *)
(* the UTF-16 code unit of a character, which is what sort() and the       *)
(* character class of the coverage pattern look at.                        *)
(***************************************************************************)
EXTENDS Integers, Sequences, FiniteSets, TLC

VARIABLES
    pc,          \* position of the run (or of the function under check)
    env,         \* process.env, the manifest sources and the network's answer
    fs,          \* the entries of the repository root (a directory tree)
    manifest,    \* mcpToolsJson
    toolNames,   \* extractToolNames' result
    missing,     \* checkToolsCovered's missing list
    bannedHits,  \* findBannedDomains' hits
    err,         \* the error thrown (rejected promise of main), or NoError
    consulted,   \* history: manifest sources read or fetched, in order
    trace,       \* history: steps of main performed, in order
    out,         \* console output: records [stream, kind, ...], in order
    exitCode     \* Running until the process ends, then 0 or 1

vars == <<pc, env, fs, manifest, toolNames, missing, bannedHits, err,
          consulted, trace, out, exitCode>>

----------------------------------------------------------------------------
(* Bounds of the model.                                                    *)

\* longest manifest (entries) drawn for extractToolNames
MaxEntries == 2
\* longest text (characters) of a tools/ document drawn for checkToolsCovered
MaxText == 3
\* most chunks concatenated into a file's text drawn for findBannedDomains
MaxChunks == 3

----------------------------------------------------------------------------
(* Strings.                                                                *)

Lowercase == <<"a","b","c","d","e","f","g","h","i","j","k","l","m",
               "n","o","p","q","r","s","t","u","v","w","x","y","z">>
Uppercase == <<"A","B","C","D","E","F","G","H","I","J","K","L","M",
               "N","O","P","Q","R","S","T","U","V","W","X","Y","Z">>
Digits    == <<"0","1","2","3","4","5","6","7","8","9">>

IndexIn(c, s) == CHOOSE i \in 1..Len(s) : s[i] = c
IsIn(c, s)    == \E i \in 1..Len(s) : s[i] = c

Punctuation ==
    <<"\t", "\n", "\r", " ", "$", "(", ")", "*", "+", "-", ".", "/", ":",
      "?", "[", "\\", "]", "^", "_", "{", "|", "}">>
PunctuationCodes ==
    <<9, 10, 13, 32, 36, 40, 41, 42, 43, 45, 46, 47, 58,
      63, 91, 92, 93, 94, 95, 123, 124, 125>>

Characters ==
    { Lowercase[i] : i \in 1..26 } \cup { Uppercase[i] : i \in 1..26 }
    \cup { Digits[i] : i \in 1..10 }
    \cup { Punctuation[i] : i \in 1..Len(Punctuation) }

\* UTF-16 code unit of each character
CodeTable ==
    [c \in Characters |->
        IF IsIn(c, Lowercase) THEN 96 + IndexIn(c, Lowercase)
        ELSE IF IsIn(c, Uppercase) THEN 64 + IndexIn(c, Uppercase)
        ELSE IF IsIn(c, Digits) THEN 47 + IndexIn(c, Digits)
        ELSE PunctuationCodes[IndexIn(c, Punctuation)]]

Code(c) == CodeTable[c]

Range(s) == { s[i] : i \in 1..Len(s) }

RECURSIVE Concat(_)
Concat(ss) == IF ss = <<>> THEN <<>> ELSE Head(ss) \o Concat(Tail(ss))

\* all sequences over S of length at most n
SeqsUpTo(S, n) == UNION { [1..k -> S] : k \in 0..n }

\* String.prototype.trim: WhiteSpace and LineTerminator at both ends
IsWhiteSpace(c) == c \in {" ", "\t", "\n", "\r"}

RECURSIVE TrimStart(_)
TrimStart(s) ==
    IF s # <<>> /\ IsWhiteSpace(Head(s)) THEN TrimStart(Tail(s)) ELSE s

RECURSIVE TrimEnd(_)
TrimEnd(s) ==
    IF s # <<>> /\ IsWhiteSpace(s[Len(s)])
    THEN TrimEnd(SubSeq(s, 1, Len(s) - 1)) ELSE s

Trim(s) == TrimEnd(TrimStart(s))

\* the comparison of sort() without a comparator: by code units
LexLess(a, b) ==
    \/ /\ Len(a) < Len(b)
       /\ \A i \in 1..Len(a) : a[i] = b[i]
    \/ \E i \in 1..Len(a) :
          /\ i <= Len(b)
          /\ \A j \in 1..(i - 1) : a[j] = b[j]
          /\ Code(a[i]) < Code(b[i])

StartsWithAt(s, i, t) ==
    /\ i + Len(t) - 1 <= Len(s)
    /\ SubSeq(s, i, i + Len(t) - 1) = t

\* String.prototype.includes
Includes(s, t) == \E i \in 1..(Len(s) + 1) : StartsWithAt(s, i, t)

\* String.prototype.endsWith
EndsWith(s, t) == Len(t) <= Len(s) /\ StartsWithAt(s, Len(s) - Len(t) + 1, t)

----------------------------------------------------------------------------
(* JSON values of a manifest.                                              *)

Undefined    == [t |-> "undefined", s |-> <<>>, n |-> 0]
JsNull       == [t |-> "null",      s |-> <<>>, n |-> 0]
JsNumber(k)  == [t |-> "number",    s |-> <<>>, n |-> k]
JsString(cs) == [t |-> "string",    s |-> cs,   n |-> 0]

\* ToBoolean
Truthy(v) ==
    CASE v.t = "undefined" -> FALSE
      [] v.t = "null"      -> FALSE
      [] v.t = "number"    -> v.n # 0
      [] v.t = "string"    -> v.s # <<>>
      [] OTHER             -> TRUE

\* a || b
Or(a, b) == IF Truthy(a) THEN a ELSE b

\* a manifest entry: an object with (some of) the three keys, or a value
\* that has none of them (null, a number, a string)
ObjEntry(name, tool, id) ==
    [isObj |-> TRUE, name |-> name, tool |-> tool, id |-> id]
NonObjEntry ==
    [isObj |-> FALSE, name |-> Undefined, tool |-> Undefined, id |-> Undefined]

\* t?.key
Get(t, key) ==
    IF ~t.isObj THEN Undefined
    ELSE CASE key = "name" -> t.name
           [] key = "tool" -> t.tool
           [] key = "id"   -> t.id

\* the parsed manifest: a bare array, an object (whose tools field is an
\* array or is not), or another value
ArrayManifest(items)  == [kind |-> "array",  toolsIsArray |-> FALSE, items |-> items]
ObjectManifest(items) == [kind |-> "object", toolsIsArray |-> TRUE,  items |-> items]
ObjectNoTools         == [kind |-> "object", toolsIsArray |-> FALSE, items |-> <<>>]
NullManifest          == [kind |-> "null",   toolsIsArray |-> FALSE, items |-> <<>>]
NoManifest            == [kind |-> "none",   toolsIsArray |-> FALSE, items |-> <<>>]

----------------------------------------------------------------------------
(* extractToolNames.                                                       *)

\* lines 96-99
ToolsOf(mcpToolsJson) ==
    IF mcpToolsJson.kind = "array" THEN mcpToolsJson.items
    ELSE IF mcpToolsJson.kind = "object" /\ mcpToolsJson.toolsIsArray
         THEN mcpToolsJson.items
    ELSE <<>>

\* line 103: const n = t?.name || t?.tool || t?.id
EntryName(t) == Or(Or(Get(t, "name"), Get(t, "tool")), Get(t, "id"))

\* lines 101-105: the names pushed, in the entries' order
RECURSIVE PushNames(_)
PushNames(tools) ==
    IF tools = <<>> THEN <<>>
    ELSE LET n == EntryName(Head(tools))
         IN  (IF n.t = "string" /\ Trim(n.s) # <<>>
              THEN <<Trim(n.s)>> ELSE <<>>) \o PushNames(Tail(tools))

\* line 107: Array.from(new Set(names)), first occurrences in order
Uniq(names) ==
    SelectSeq([i \in 1..Len(names) |->
                  [v |-> names[i],
                   first |-> \A j \in 1..(i - 1) : names[j] # names[i]]],
              LAMBDA e : e.first)

UniqNames(names) ==
    LET u == Uniq(names) IN [i \in 1..Len(u) |-> u[i].v]

\* line 108 dropped: no sort
SortNamesNone(names) == names

\* line 108: uniq.sort()
SortNames(names) == SortSeq(names, LexLess)

extractToolNames(mcpToolsJson) ==
    SortNames(UniqNames(PushNames(ToolsOf(mcpToolsJson))))

----------------------------------------------------------------------------
(* The file system: the entries of the repository root, in readdir order.  *)

File(name, text) == [name |-> name, isDir |-> FALSE, text |-> text, kids |-> <<>>]
Dir(name, kids)  == [name |-> name, isDir |-> TRUE,  text |-> <<>>, kids |-> kids]

\* process.cwd()
RepoRoot == <<"/", "r">>

\* path.join(dir, name)
PathJoin(dir, name) == dir \o <<"/">> \o name

\* path.basename(p)
RECURSIVE Basename(_)
Basename(p) ==
    IF p = <<>> \/ p[Len(p)] = "/" THEN <<>>
    ELSE Append(Basename(SubSeq(p, 1, Len(p) - 1)), p[Len(p)])

\* lines 10-19 without the predicate: every file under dir, depth first, as
\* [path, text]
RECURSIVE ListFiles(_, _)
ListFiles(dir, ents) ==
    IF ents = <<>> THEN <<>>
    ELSE LET ent == Head(ents)
             p   == PathJoin(dir, ent.name)
         IN  (IF ent.isDir THEN ListFiles(p, ent.kids)
              ELSE <<[path |-> p, text |-> ent.text]>>)
             \o ListFiles(dir, Tail(ents))

\* every directory under dir, as [path, kids]
RECURSIVE ListDirs(_, _)
ListDirs(dir, ents) ==
    IF ents = <<>> THEN <<>>
    ELSE LET ent == Head(ents)
             p   == PathJoin(dir, ent.name)
         IN  (IF ent.isDir
              THEN <<[path |-> p, kids |-> ent.kids]>> \o ListDirs(p, ent.kids)
              ELSE <<>>)
             \o ListDirs(dir, Tail(ents))

\* fs.existsSync(p)
ExistsSync(p) ==
    \/ p = RepoRoot
    \/ \E f \in Range(ListFiles(RepoRoot, fs)) : f.path = p
    \/ \E d \in Range(ListDirs(RepoRoot, fs)) : d.path = p

\* fs.readdirSync(dir, { withFileTypes: true })
\* (it throws on a path that is no directory; main walks only directories
\* it has seen, and the empty listing stands for that case)
ReadDir(dir) ==
    IF dir = RepoRoot THEN fs
    ELSE IF \E d \in Range(ListDirs(RepoRoot, fs)) : d.path = dir
         THEN (CHOOSE d \in Range(ListDirs(RepoRoot, fs)) : d.path = dir).kids
    ELSE <<>>

\* lines 5-7
readText(filePath) ==
    (CHOOSE f \in Range(ListFiles(RepoRoot, fs)) : f.path = filePath).text

\* line 140: (p) => p.endsWith(".mdx")
IsToolDoc(p) == EndsWith(p, <<".", "m", "d", "x">>)

\* lines 118-120
IsDocSource(p) ==
    \/ EndsWith(p, <<".", "m", "d", "x">>)
    \/ EndsWith(p, <<".", "m", "d">>)
    \/ Basename(p) = <<"d","o","c","s",".","j","s","o","n">>

\* the predicate a caller hands to walkFiles, by name
Accepts(predicate, p) ==
    CASE predicate = "IsToolDoc"   -> IsToolDoc(p)
      [] predicate = "IsDocSource" -> IsDocSource(p)

\* lines 9-20: the predicate only filters the files of the depth-first walk
walkFiles(dir, predicate) ==
    LET all  == ListFiles(dir, ReadDir(dir))
        kept == SelectSeq(all, LAMBDA f : Accepts(predicate, f.path))
    IN  [i \in 1..Len(kept) |-> kept[i].path]

----------------------------------------------------------------------------
(* checkToolsCovered.                                                      *)

MetaChars == {".", "*", "+", "?", "^", "$", "{", "}", "(", ")", "|", "[", "]", "\\"}

\* lines 22-24 with nothing escaped
escapeRegExpNone(s) == s

\* lines 22-24: s.replace(/[.*+?^${}()|[\]\\]/g, "\\$&")
escapeRegExp(s) ==
    Concat([i \in 1..Len(s) |->
               IF s[i] \in MetaChars THEN <<"\\", s[i]>> ELSE <<s[i]>>])

\* the pattern's atoms: an escaped character is a literal, a bare dot matches
\* any character but a line terminator, any other character is a literal (the
\* other metacharacters never reach the pattern unescaped)
RECURSIVE ParseAtoms(_)
ParseAtoms(src) ==
    IF src = <<>> THEN <<>>
    ELSE IF Head(src) = "\\" /\ Len(src) >= 2
         THEN <<[any |-> FALSE, c |-> src[2]]>> \o ParseAtoms(Tail(Tail(src)))
    ELSE IF Head(src) = "."
         THEN <<[any |-> TRUE, c |-> "."]>> \o ParseAtoms(Tail(src))
    ELSE <<[any |-> FALSE, c |-> Head(src)]>> \o ParseAtoms(Tail(src))

\* Canonicalize of the i flag: toUpperCase of one code unit
UpperTable ==
    [c \in Characters |->
        IF IsIn(c, Lowercase) THEN Uppercase[IndexIn(c, Lowercase)] ELSE c]

ToUpper(c) == UpperTable[c]

\* [a-z0-9_] under the i flag
InWordClass(ch) ==
    LET u == Code(ToUpper(ch))
    IN  \/ u >= Code(ToUpper("a")) /\ u <= Code(ToUpper("z"))
        \/ u >= Code("0") /\ u <= Code("9")
        \/ u = Code("_")

AtomMatches(a, ch) ==
    IF a.any THEN ch \notin {"\n", "\r"} ELSE ToUpper(a.c) = ToUpper(ch)

\* lines 145-146: new RegExp(`(^|[^a-z0-9_])${source}([^a-z0-9_]|$)`, "i")
\* .test(text); the name's match starts at k
RegExpTest(source, text) ==
    LET atoms == ParseAtoms(source)
        n     == Len(atoms)
    IN  \E k \in 1..(Len(text) + 1) :
           /\ k + n - 1 <= Len(text)
           /\ k = 1 \/ ~InWordClass(text[k - 1])
           /\ \A j \in 1..n : AtomMatches(atoms[j], text[k + j - 1])
           /\ k + n = Len(text) + 1 \/ ~InWordClass(text[k + n])

\* lines 143-148 reporting the names found instead of the names not found
SelectMissingInverted(names, texts) ==
    SelectSeq(names, LAMBDA name :
        \E i \in 1..Len(texts) : RegExpTest(escapeRegExp(name), texts[i]))

\* lines 143-148
SelectMissing(names, texts) ==
    SelectSeq(names, LAMBDA name :
        ~\E i \in 1..Len(texts) : RegExpTest(escapeRegExp(name), texts[i]))

\* lines 139-151
checkToolsCovered(names, toolsDocsRoot) ==
    LET toolFiles == walkFiles(toolsDocsRoot, "IsToolDoc")
        corpus    == [i \in 1..Len(toolFiles) |-> readText(toolFiles[i])]
    IN  [toolFiles |-> toolFiles, missing |-> SelectMissing(names, corpus)]

----------------------------------------------------------------------------
(* findBannedDomains.                                                      *)

DocsDomain   == <<"d","o","c","s",".","a","d","s","g","a","t","e","w","a","y",".","i","o">>
StatusDomain == <<"s","t","a","t","u","s",".","a","d","s","g","a","t","e","w","a","y",".","i","o">>

\* lines 113-116
banned == <<DocsDomain, StatusDomain>>

\* where /\r?\n/ matches at position q of txt, and how long the match is
BreakLenAt(txt, q) ==
    IF txt[q] = "\n" THEN 1
    ELSE IF txt[q] = "\r" /\ q < Len(txt) /\ txt[q + 1] = "\n" THEN 2
    ELSE 0

\* line 125: txt.split(/\r?\n/): the text before the leftmost match, then the
\* split of the text after it
RECURSIVE SplitLines(_)
SplitLines(txt) ==
    LET at == { q \in 1..Len(txt) : BreakLenAt(txt, q) > 0 }
    IN  IF at = {} THEN <<txt>>
        ELSE LET q == CHOOSE q \in at : \A r \in at : q <= r
             IN  <<SubSeq(txt, 1, q - 1)>>
                 \o SplitLines(SubSeq(txt, q + BreakLenAt(txt, q), Len(txt)))

\* lines 128-132 stopping at the first banned domain of a line
HitsOfLineFirstOnly(file, i, line) ==
    LET doms == SelectSeq(banned, LAMBDA domain : Includes(line, domain))
    IN  IF doms = <<>> THEN <<>>
        ELSE <<[file |-> file, line |-> i, domain |-> doms[1], text |-> Trim(line)]>>

\* lines 128-132
HitsOfLine(file, i, line) ==
    LET doms == SelectSeq(banned, LAMBDA domain : Includes(line, domain))
    IN  [k \in 1..Len(doms) |->
            [file |-> file, line |-> i, domain |-> doms[k], text |-> Trim(line)]]

\* lines 124-133
HitsOfFile(file) ==
    LET lines == SplitLines(readText(file))
    IN  Concat([i \in 1..Len(lines) |-> HitsOfLine(file, i, lines[i])])

\* lines 112-137
findBannedDomains(repoRoot) ==
    LET files == walkFiles(repoRoot, "IsDocSource")
    IN  Concat([f \in 1..Len(files) |-> HitsOfFile(files[f])])

----------------------------------------------------------------------------
(* The environment of a run: process.env, the three manifest files and the *)
(* answer of the network.                                                  *)

\* process.env.X: undefined, or a string
NotSet     == [set |-> FALSE, s |-> <<>>]
SetTo(cs)  == [set |-> TRUE,  s |-> cs]

\* (process.env.X || "").trim()
EnvTrim(v) == Trim(IF v.set /\ v.s # <<>> THEN v.s ELSE <<>>)

\* a manifest file: absent, or present with text that parses to json or does
\* not parse. The three manifest files are kept apart from fs: the sibling
\* and the explicit path lie outside the walks, and tooling/mcp-tools.json
\* is accepted by neither predicate of walkFiles
AbsentFile      == [exists |-> FALSE, parses |-> FALSE, json |-> NoManifest]
MalformedFile   == [exists |-> TRUE,  parses |-> FALSE, json |-> NoManifest]
JsonFile(json)  == [exists |-> TRUE,  parses |-> TRUE,  json |-> json]

\* the network's answer to the GET: a response that ends (status code, body),
\* an error event on the request, or nothing at all
EndsWith200(body)    == [outcome |-> "end", statusCode |-> 200, body |-> body]
EndsWithStatus(k)    == [outcome |-> "end", statusCode |-> k, body |-> JsonFile(NullManifest)]
RequestError         == [outcome |-> "error", statusCode |-> 0, body |-> AbsentFile]
NeverAnswers         == [outcome |-> "hang",  statusCode |-> 0, body |-> AbsentFile]

\* errors: what was thrown, and the manifest source (if any) its message names
NoError == [kind |-> "none", names |-> "none", status |-> 0]
Error(kind, names) == [kind |-> kind, names |-> names, status |-> 0]

----------------------------------------------------------------------------
(* loadMcpToolsJson.                                                       *)

\* lines 64-92 with the remote URL tried before the sibling file
SelectedSourceUrlFirst(e) ==
    IF EnvTrim(e.MCP_TOOLS_JSON_PATH) # <<>> THEN "path"
    ELSE IF EnvTrim(e.MCP_TOOLS_JSON_URL) # <<>> THEN "url"
    ELSE IF e.sibling.exists THEN "sibling"
    ELSE IF e.vendored.exists THEN "vendored"
    ELSE "none"

\* lines 64-92: the chain of early returns
SelectedSource(e) ==
    IF EnvTrim(e.MCP_TOOLS_JSON_PATH) # <<>> THEN "path"
    ELSE IF e.sibling.exists THEN "sibling"
    ELSE IF EnvTrim(e.MCP_TOOLS_JSON_URL) # <<>> THEN "url"
    ELSE IF e.vendored.exists THEN "vendored"
    ELSE "none"

SourceFile(e, src) ==
    CASE src = "path"     -> e.pathFile
      [] src = "sibling"  -> e.sibling
      [] src = "vendored" -> e.vendored

\* JSON.parse(readText(p)): readFileSync's error names the path, JSON.parse's
\* SyntaxError names nothing
ReadAndParse(file, src) ==
    IF ~file.exists THEN [err |-> Error("read", src), json |-> NoManifest]
    ELSE IF ~file.parses THEN [err |-> Error("parse", "none"), json |-> NoManifest]
    ELSE [err |-> NoError, json |-> file.json]

\* lines 43-53: the response's end handler
OnResponseEnd(res) ==
    IF res.statusCode # 0 /\ res.statusCode >= 400
    THEN [err |-> [kind |-> "fetch", names |-> "url", status |-> res.statusCode],
          json |-> NoManifest]
    ELSE IF ~res.body.parses
         THEN [err |-> Error("parse", "url"), json |-> NoManifest]
    ELSE [err |-> NoError, json |-> res.body.json]

----------------------------------------------------------------------------
(* main: the report.                                                       *)

NoHit == [file |-> <<>>, line |-> 0, domain |-> <<>>, text |-> <<>>]

Line(stream, kind, name, hit, count) ==
    [stream |-> stream, kind |-> kind, name |-> name, hit |-> hit, count |-> count]

\* lines 168-172
MissingBlock(miss) ==
    IF miss = <<>> THEN <<>>
    ELSE <<Line("stderr", "missingHeader", <<>>, NoHit, 0)>>
         \o [i \in 1..Len(miss) |-> Line("stderr", "missingItem", miss[i], NoHit, 0)]

\* lines 174-180
BannedBlock(hits) ==
    IF hits = <<>> THEN <<>>
    ELSE <<Line("stderr", "bannedHeader", <<>>, NoHit, 0)>>
         \o [i \in 1..Len(hits) |-> Line("stderr", "bannedItem", <<>>, hits[i], 0)]

\* lines 168-184 leaving (process.exit) inside the first block
DiagnosticsFirstOnly(miss, hits) ==
    IF miss # <<>> THEN MissingBlock(miss) ELSE BannedBlock(hits)

\* lines 168-180: both blocks, before the decision of line 182
Diagnostics(miss, hits) == MissingBlock(miss) \o BannedBlock(hits)

\* lines 166-180 with the banned hits not counted
OkIgnoresBanned(miss, hits) == miss = <<>>

\* lines 166-180: let ok = true, cleared by either block
Ok(miss, hits) == miss = <<>> /\ hits = <<>>

\* line 156 with the check dropped
ToolsDirExistsAlways == TRUE

\* lines 155-156: fs.existsSync(toolsDocsRoot)
ToolsDirExists == ExistsSync(PathJoin(RepoRoot, <<"t","o","o","l","s">>))

----------------------------------------------------------------------------
(* The run: main, its catch handler and the end of the process.            *)

ToolsDocsRoot == PathJoin(RepoRoot, <<"t","o","o","l","s">>)

NotExited == 0 - 1

Reject(e) ==
    /\ err' = e
    /\ pc' = "rejected"

\* lines 154-158
CheckToolsDir ==
    /\ pc = "main"
    /\ trace' = Append(trace, "toolsCheck")
    /\ IF ToolsDirExists
       THEN pc' = "load" /\ err' = err
       ELSE Reject(Error("missingToolsDir", "none"))
    /\ UNCHANGED <<env, fs, manifest, toolNames, missing, bannedHits,
                   consulted, out, exitCode>>

\* lines 64-74 and 81-85: a file source is selected, read and parsed
LoadFromFile ==
    /\ pc = "load"
    /\ SelectedSource(env) \in {"path", "sibling", "vendored"}
    /\ LET src == SelectedSource(env)
           r   == ReadAndParse(SourceFile(env, src), src)
       IN  /\ consulted' = Append(consulted, src)
           /\ IF r.err = NoError
              THEN manifest' = r.json /\ pc' = "extract" /\ err' = err
              ELSE manifest' = manifest /\ Reject(r.err)
    /\ trace' = Append(trace, "load")
    /\ UNCHANGED <<env, fs, toolNames, missing, bannedHits, out, exitCode>>

\* lines 76-79 and 26-58: the request is sent, main awaits
FetchStart ==
    /\ pc = "load"
    /\ SelectedSource(env) = "url"
    /\ consulted' = Append(consulted, "url")
    /\ trace' = Append(trace, "load")
    /\ pc' = "fetching"
    /\ UNCHANGED <<env, fs, manifest, toolNames, missing, bannedHits, err,
                   out, exitCode>>

\* lines 39-54: the response ends
FetchEnd ==
    /\ pc = "fetching"
    /\ env.response.outcome = "end"
    /\ LET r == OnResponseEnd(env.response)
       IN  IF r.err = NoError
           THEN manifest' = r.json /\ pc' = "extract" /\ err' = err
           ELSE manifest' = manifest /\ Reject(r.err)
    /\ UNCHANGED <<env, fs, toolNames, missing, bannedHits, consulted, trace,
                   out, exitCode>>

\* line 56: req.on("error", reject)
FetchError ==
    /\ pc = "fetching"
    /\ env.response.outcome = "error"
    /\ Reject(Error("network", "none"))
    /\ UNCHANGED <<env, fs, manifest, toolNames, missing, bannedHits,
                   consulted, trace, out, exitCode>>

\* lines 87-92
ResolutionError ==
    /\ pc = "load"
    /\ SelectedSource(env) = "none"
    /\ trace' = Append(trace, "load")
    /\ Reject(Error("resolution", "none"))
    /\ UNCHANGED <<env, fs, manifest, toolNames, missing, bannedHits,
                   consulted, out, exitCode>>

\* line 161
Extract ==
    /\ pc = "extract"
    /\ toolNames' = extractToolNames(manifest)
    /\ pc' = "cover"
    /\ UNCHANGED <<env, fs, manifest, missing, bannedHits, err, consulted,
                   trace, out, exitCode>>

\* line 163
Cover ==
    /\ pc = "cover"
    /\ missing' = checkToolsCovered(toolNames, ToolsDocsRoot).missing
    /\ trace' = Append(trace, "coverWalk")
    /\ pc' = "banned"
    /\ UNCHANGED <<env, fs, manifest, toolNames, bannedHits, err, consulted,
                   out, exitCode>>

\* line 164
Banned ==
    /\ pc = "banned"
    /\ bannedHits' = findBannedDomains(RepoRoot)
    /\ trace' = Append(trace, "bannedWalk")
    /\ pc' = "report"
    /\ UNCHANGED <<env, fs, manifest, toolNames, missing, err, consulted,
                   out, exitCode>>

\* lines 166-186
Report ==
    /\ pc = "report"
    /\ IF ~Ok(missing, bannedHits)
       THEN /\ out' = out \o Diagnostics(missing, bannedHits)
            /\ exitCode' = 1
            /\ pc' = "exited"
       ELSE /\ out' = out \o Diagnostics(missing, bannedHits)
                        \o <<Line("stdout", "ok", <<>>, NoHit, Len(toolNames))>>
            /\ exitCode' = exitCode
            /\ pc' = "resolved"
    /\ UNCHANGED <<env, fs, manifest, toolNames, missing, bannedHits, err,
                   consulted, trace>>

\* lines 189-193
Catch ==
    /\ pc = "rejected"
    /\ out' = out \o <<Line("stderr", "failedHeader", <<>>, NoHit, 0),
                       Line("stderr", "failedError", <<>>, NoHit, 0)>>
    /\ exitCode' = 1
    /\ pc' = "exited"
    /\ UNCHANGED <<env, fs, manifest, toolNames, missing, bannedHits, err,
                   consulted, trace>>

\* main's promise is fulfilled and nothing is pending: the process ends with
\* the default exit code
ProcessEnd ==
    /\ pc = "resolved"
    /\ exitCode' = 0
    /\ pc' = "exited"
    /\ UNCHANGED <<env, fs, manifest, toolNames, missing, bannedHits, err,
                   consulted, trace, out>>

Next ==
    \/ CheckToolsDir
    \/ LoadFromFile
    \/ FetchStart
    \/ FetchEnd
    \/ FetchError
    \/ ResolutionError
    \/ Extract
    \/ Cover
    \/ Banned
    \/ Report
    \/ Catch
    \/ ProcessEnd

----------------------------------------------------------------------------
(* The runs checked.                                                       *)

Str_a   == <<"a">>
Str_b   == <<"b">>

\* manifests of the sources of a whole run, one per source
PathJson     == ArrayManifest(<<ObjEntry(JsString(Str_a), Undefined, Undefined)>>)
SiblingJson  == ObjectManifest(<<ObjEntry(Undefined, JsString(Str_b), Undefined)>>)
UrlJson      == ArrayManifest(<<ObjEntry(Undefined, Undefined, JsString(Str_b)),
                                ObjEntry(JsString(Str_a), Undefined, Undefined)>>)
VendoredJson == ArrayManifest(<<>>)

EnvValues == {NotSet, SetTo(<<>>), SetTo(<<" ">>), SetTo(<<" ", "m", " ">>)}

FileStates(json) == {AbsentFile, MalformedFile, JsonFile(json)}

Responses ==
    {RequestError, NeverAnswers, EndsWithStatus(404), EndsWithStatus(400),
     EndsWith200(MalformedFile), EndsWith200(JsonFile(UrlJson)),
     [outcome |-> "end", statusCode |-> 399, body |-> JsonFile(UrlJson)]}

Environments ==
    [MCP_TOOLS_JSON_PATH : EnvValues,
     MCP_TOOLS_JSON_URL  : {NotSet, SetTo(<<" ">>), SetTo(<<"u">>)},
     pathFile : FileStates(PathJson),
     sibling  : FileStates(SiblingJson),
     vendored : FileStates(VendoredJson),
     response : Responses]

ToolsDir(kids) == Dir(<<"t","o","o","l","s">>, kids)
Mdx(n)   == n \o <<".", "m", "d", "x">>
Md(n)    == n \o <<".", "m", "d">>
DocsJson == <<"d","o","c","s",".","j","s","o","n">>

\* repository trees of a whole run
MainTrees ==
    { <<File(Md(Str_a), DocsDomain)>>,
      <<ToolsDir(<<>>)>>,
      <<ToolsDir(<<File(Mdx(Str_a), <<"a", " ", "b">>)>>)>>,
      <<ToolsDir(<<File(Mdx(Str_a), <<"a">>)>>)>>,
      <<ToolsDir(<<File(Mdx(Str_a), <<"a">>)>>), File(Md(Str_b), StatusDomain)>>,
      <<ToolsDir(<<File(Mdx(Str_a), <<"B", ".", "A">>)>>),
        File(DocsJson, <<"x", "\n">> \o DocsDomain \o StatusDomain)>>,
      <<File(DocsJson, <<"b">>), ToolsDir(<<File(Md(Str_a), <<"a", " ", "b">>)>>)>> }

Quiet ==
    /\ toolNames = <<>>
    /\ missing = <<>>
    /\ bannedHits = <<>>
    /\ err = NoError
    /\ out = <<>>
    /\ exitCode = NotExited

Init ==
    /\ pc = "main"
    /\ env \in Environments
    /\ fs \in MainTrees
    /\ manifest = NoManifest
    /\ consulted = <<>>
    /\ trace = <<>>
    /\ Quiet

Spec == Init /\ [][Next]_vars

----------------------------------------------------------------------------
(* Runs of one function on drawn inputs: the state main is in just before  *)
(* the call, after a manifest m was loaded from MCP_TOOLS_JSON_PATH.       *)

LoadedFromPath(m) ==
    /\ env = [MCP_TOOLS_JSON_PATH |-> SetTo(<<"m">>),
              MCP_TOOLS_JSON_URL  |-> NotSet,
              pathFile |-> JsonFile(m),
              sibling  |-> AbsentFile,
              vendored |-> AbsentFile,
              response |-> RequestError]
    /\ manifest = m
    /\ consulted = <<"path">>
    /\ err = NoError
    /\ out = <<>>
    /\ exitCode = NotExited

\* extractToolNames on drawn manifests
NameValues ==
    {Undefined, JsNumber(5), JsString(<<" ">>), JsString(<<"B">>),
     JsString(<<" ", "a">>)}
ToolValues == {Undefined, JsString(<<"a">>)}
IdValues   == {JsNull, JsString(<<"a", "b">>)}

Entries ==
    {NonObjEntry} \cup
    {ObjEntry(n, t, i) : n \in NameValues, t \in ToolValues, i \in IdValues}

ExtractManifests ==
    {ObjectNoTools, NullManifest}
    \cup {ArrayManifest(items)  : items \in SeqsUpTo(Entries, MaxEntries)}
    \cup {ObjectManifest(items) : items \in SeqsUpTo(Entries, MaxEntries)}

InitExtract ==
    /\ pc = "extract"
    /\ fs = <<ToolsDir(<<>>)>>
    /\ \E m \in ExtractManifests : LoadedFromPath(m)
    /\ trace = <<"toolsCheck", "load">>
    /\ toolNames = <<>>
    /\ missing = <<>>
    /\ bannedHits = <<>>

SpecExtract == InitExtract /\ [][Extract]_vars

\* checkToolsCovered on drawn names and documents
CoverNames == {<<"a">>, <<"B">>, <<"a", ".", "b">>}
CoverAlphabet == {"a", "A", "b", ".", "_"}
CoverTexts == SeqsUpTo(CoverAlphabet, MaxText)

NamesManifest(names) ==
    ArrayManifest([i \in 1..Len(names) |->
                      ObjEntry(JsString(names[i]), Undefined, Undefined)])

\* the sorted lists of distinct names
CoverNameLists ==
    { l \in SeqsUpTo(CoverNames, Cardinality(CoverNames)) :
        \A i \in 1..(Len(l) - 1) : LexLess(l[i], l[i + 1]) }

CoverTrees ==
    UNION { { <<ToolsDir(<<File(Mdx(Str_a), t)>>)>>,
              <<ToolsDir(<<File(Md(Str_a), t)>>)>>,
              <<ToolsDir(<<Dir(<<"s">>, <<File(Mdx(Str_b), t)>>),
                           File(Mdx(Str_a), <<"b">>)>>)>>,
              <<File(Mdx(Str_a), t), ToolsDir(<<File(<<"m", "d", "x">>, t)>>)>> }
            : t \in CoverTexts }

InitCover ==
    /\ pc = "cover"
    /\ fs \in CoverTrees
    /\ \E l \in CoverNameLists :
          /\ LoadedFromPath(NamesManifest(l))
          /\ toolNames = extractToolNames(NamesManifest(l))
    /\ trace = <<"toolsCheck", "load">>
    /\ missing = <<>>
    /\ bannedHits = <<>>

SpecCover == InitCover /\ [][Cover]_vars

\* findBannedDomains on drawn documents
Chunks ==
    {DocsDomain, StatusDomain, <<"x">>, <<" ">>, <<"\n">>, <<"\r", "\n">>, <<"\r">>}

BannedTexts == { Concat(cs) : cs \in SeqsUpTo(Chunks, MaxChunks) }

BannedTrees ==
    UNION { { <<ToolsDir(<<>>), File(Md(Str_a), t)>>,
              <<ToolsDir(<<File(Mdx(Str_a), t)>>)>>,
              <<File(DocsJson, t), ToolsDir(<<>>)>>,
              <<ToolsDir(<<>>), File(<<"a", ".", "t", "x", "t">>, t)>>,
              <<ToolsDir(<<>>), Dir(<<"x", ".">>, <<File(<<"m", "d">>, t)>>)>>,
              <<ToolsDir(<<>>), Dir(<<"s">>, <<File(DocsJson, t)>>),
                File(Md(Str_b), StatusDomain)>>,
              <<ToolsDir(<<File(Mdx(Str_a), DocsDomain)>>), File(Md(Str_a), t)>> }
            : t \in BannedTexts }

InitBanned ==
    /\ pc = "banned"
    /\ fs \in BannedTrees
    /\ LoadedFromPath(VendoredJson)
    /\ trace = <<"toolsCheck", "load", "coverWalk">>
    /\ toolNames = <<>>
    /\ missing = <<>>
    /\ bannedHits = <<>>

SpecBanned == InitBanned /\ [][Banned]_vars

----------------------------------------------------------------------------
(* Properties.                                                             *)

Performed(step) == \E i \in 1..Len(trace) : trace[i] = step

NonBlank(v) == v.set /\ \E i \in 1..Len(v.s) : ~IsWhiteSpace(v.s[i])

\* the source the stated priority order gives
PrioritySource ==
    IF NonBlank(env.MCP_TOOLS_JSON_PATH) THEN "path"
    ELSE IF env.sibling.exists THEN "sibling"
    ELSE IF NonBlank(env.MCP_TOOLS_JSON_URL) THEN "url"
    ELSE IF env.vendored.exists THEN "vendored"
    ELSE "none"

PriorityJson ==
    CASE PrioritySource = "path"     -> env.pathFile.json
      [] PrioritySource = "sibling"  -> env.sibling.json
      [] PrioritySource = "url"      -> env.response.body.json
      [] PrioritySource = "vendored" -> env.vendored.json
      [] OTHER                       -> NoManifest

\* C1: loadMcpToolsJson consults the first available source of the order
\* path, sibling, URL, vendored, and only that one; with no source available
\* it consults none and throws the resolution error; a manifest, when one is
\* returned, is the selected source's; a failure of the selected source
\* rejects the run without another source being consulted.
C1_PriorityOrder ==
    /\ ~Performed("load") => consulted = <<>> /\ manifest = NoManifest
    /\ Performed("load") =>
         /\ consulted = IF PrioritySource = "none" THEN <<>>
                        ELSE <<PrioritySource>>
         /\ PrioritySource = "none" => err.kind = "resolution"
         /\ manifest # NoManifest => manifest = PriorityJson /\ err = NoError
         /\ err # NoError => manifest = NoManifest /\ pc \in {"rejected", "exited"}

\* a fetch of the URL failed while a vendored file was there to fall back to
C1_Witness ==
    /\ pc = "exited"
    /\ consulted = <<"url">>
    /\ env.vendored.exists /\ env.vendored.parses
    /\ env.pathFile.exists
    /\ err.kind = "fetch"
    /\ exitCode = 1

\* C2: a run that ends ends with exit code 0 or 1, and with 0 exactly when
\* no error was thrown and both the missing list and the hit list are empty.
C2_ExitCode ==
    /\ pc # "exited" => exitCode = NotExited
    /\ pc = "exited" =>
         /\ exitCode \in {0, 1}
         /\ exitCode = 0 <=>
               (err = NoError /\ missing = <<>> /\ bannedHits = <<>>)

\* a run with every tool covered and a banned domain found
C2_Witness ==
    /\ pc = "exited"
    /\ err = NoError
    /\ toolNames # <<>>
    /\ missing = <<>>
    /\ bannedHits # <<>>
    /\ exitCode = 1

\* the files under the tools documentation root, as [path, text]
FilesUnderTools ==
    { f \in Range(ListFiles(RepoRoot, fs)) :
        StartsWithAt(f.path, 1, ToolsDocsRoot \o <<"/">>) }

MdxUnderTools ==
    { f \in FilesUnderTools : EndsWith(f.path, <<".", "m", "d", "x">>) }

WordChars ==
    { Lowercase[i] : i \in 1..26 } \cup { Uppercase[i] : i \in 1..26 }
    \cup { Digits[i] : i \in 1..10 } \cup {"_"}

IsWordChar(c) == c \in WordChars

LetterPairs == { {Lowercase[i], Uppercase[i]} : i \in 1..26 }

SameLetter(c, d) == c = d \/ {c, d} \in LetterPairs

\* name occurs in text as a whole word, whatever the case of its letters
Mentions(name, text) ==
    \E k \in 1..Len(text) :
       /\ k + Len(name) - 1 <= Len(text)
       /\ \A j \in 1..Len(name) : SameLetter(name[j], text[k + j - 1])
       /\ k > 1 => ~IsWordChar(text[k - 1])
       /\ k + Len(name) <= Len(text) => ~IsWordChar(text[k + Len(name)])

\* C3, as stated: when every name is mentioned in some file under the tools
\* root, whatever the file's extension, no tool is reported missing.
C3_AnyFileCovers ==
    pc = "banned" =>
       ((\A i \in 1..Len(toolNames) :
            \E f \in FilesUnderTools : Mentions(toolNames[i], f.text))
        => missing = <<>>)

\* C3, amended: when every name is mentioned in some .mdx file under the
\* tools root, no tool is reported missing.
C3_MdxFileCovers ==
    pc = "banned" =>
       ((\A i \in 1..Len(toolNames) :
            \E f \in MdxUnderTools : Mentions(toolNames[i], f.text))
        => missing = <<>>)

\* two names or more, each mentioned in an .mdx document
C3_Witness ==
    /\ pc = "banned"
    /\ Len(toolNames) >= 2
    /\ \A i \in 1..Len(toolNames) :
          \E f \in MdxUnderTools : Mentions(toolNames[i], f.text)
    /\ missing = <<>>

OccursIn(name, text) ==
    \E k \in 1..Len(text) :
       /\ k + Len(name) - 1 <= Len(text)
       /\ \A j \in 1..Len(name) : SameLetter(name[j], text[k + j - 1])

\* C4: the missing list holds every name that occurs in no file under the
\* tools root, holds no name mentioned as a whole word in a scanned (.mdx)
\* file, holds no name twice, and is the extracted list with the covered
\* names taken out, in the same order.
C4_MissingReport ==
    pc = "banned" =>
       /\ \A i \in 1..Len(toolNames) :
             (\A f \in FilesUnderTools : ~OccursIn(toolNames[i], f.text))
             => toolNames[i] \in Range(missing)
       /\ \A i \in 1..Len(missing) :
             \A f \in MdxUnderTools : ~Mentions(missing[i], f.text)
       /\ \A i, j \in 1..Len(missing) : missing[i] = missing[j] => i = j
       /\ missing = SelectSeq(toolNames, LAMBDA name :
                       \A f \in MdxUnderTools : ~Mentions(name, f.text))
       /\ \A i \in 1..(Len(missing) - 1) : LexLess(missing[i], missing[i + 1])

\* the name with a metacharacter is missing, the two names before it are
\* covered by a document that holds them in the other case
C4_Witness ==
    /\ pc = "banned"
    /\ toolNames = <<<<"B">>, <<"a">>, <<"a", ".", "b">>>>
    /\ missing = <<<<"a", ".", "b">>>>
    /\ \E f \in MdxUnderTools : f.text = <<"b", ".", "A">>

\* the positions of the line feeds of a text, and its lines: the text between
\* two successive line feeds, less a carriage return right before the second
LineFeeds(txt) == { q \in 1..Len(txt) : txt[q] = "\n" }
NumLines(txt)  == Cardinality(LineFeeds(txt)) + 1
NthFeed(txt, k) ==
    CHOOSE q \in LineFeeds(txt) :
        Cardinality({ r \in LineFeeds(txt) : r <= q }) = k
LineOf(txt, i) ==
    LET first == IF i = 1 THEN 1 ELSE NthFeed(txt, i - 1) + 1
        feed  == IF i = NumLines(txt) THEN Len(txt) + 1 ELSE NthFeed(txt, i)
        last  == IF feed <= Len(txt) /\ feed - 1 >= first /\ txt[feed - 1] = "\r"
                 THEN feed - 2 ELSE feed - 1
    IN  SubSeq(txt, first, last)

\* t is line without its leading and trailing whitespace
IsTrimOf(t, line) ==
    \E i \in 1..(Len(line) + 1) : \E j \in 0..Len(line) :
       /\ t = SubSeq(line, i, j)
       /\ \A k \in 1..(i - 1) : IsWhiteSpace(line[k])
       /\ \A k \in (j + 1)..Len(line) : IsWhiteSpace(line[k])
       /\ t # <<>> => ~IsWhiteSpace(t[1]) /\ ~IsWhiteSpace(t[Len(t)])

\* the files the banned-domain scan reads: .md, .mdx and files named
\* docs.json, anywhere in the repository
ScannedFiles ==
    { f \in Range(ListFiles(RepoRoot, fs)) :
        \/ EndsWith(f.path, <<".", "m", "d">>)
        \/ EndsWith(f.path, <<".", "m", "d", "x">>)
        \/ EndsWith(f.path, <<"/">> \o DocsJson) }

\* the (file, line number, domain) such that the line holds the domain
BannedTriples ==
    UNION { { [file |-> f.path, line |-> i, domain |-> d]
              : <<i, d>> \in { ld \in (1..NumLines(f.text)) \X {DocsDomain, StatusDomain} :
                                 Includes(LineOf(f.text, ld[1]), ld[2]) } }
            : f \in ScannedFiles }

TripleOf(h) == [file |-> h.file, line |-> h.line, domain |-> h.domain]

\* C5: findBannedDomains returns one hit for each (scanned file, line,
\* banned domain) whose line holds the domain as a substring, and no other
\* hit; a hit carries the 1-indexed number of the line and the line's text
\* trimmed; a line holding both domains gives two hits, a scanned file
\* holding neither gives none.
C5_BannedHits ==
    pc = "report" =>
       /\ { TripleOf(bannedHits[i]) : i \in 1..Len(bannedHits) } = BannedTriples
       /\ Len(bannedHits) = Cardinality(BannedTriples)
       /\ \A i \in 1..Len(bannedHits) :
             LET h == bannedHits[i]
                 f == CHOOSE f \in ScannedFiles : f.path = h.file
             IN  IsTrimOf(h.text, LineOf(f.text, h.line))
       /\ \A f \in ScannedFiles :
             (~Includes(f.text, DocsDomain) /\ ~Includes(f.text, StatusDomain))
             => \A i \in 1..Len(bannedHits) : bannedHits[i].file # f.path

\* the second line, after a CRLF, holds both domains: two hits on line 2,
\* in the order of the banned list
C5_Witness ==
    /\ pc = "report"
    /\ Len(bannedHits) = 2
    /\ bannedHits[1].line = 2 /\ bannedHits[2].line = 2
    /\ bannedHits[1].domain = DocsDomain /\ bannedHits[2].domain = StatusDomain
    /\ bannedHits[1].text = StatusDomain \o DocsDomain
    /\ \E f \in ScannedFiles : f.text[1] = "\r"

FieldsInOrder(t) == <<Get(t, "name"), Get(t, "tool"), Get(t, "id")>>

IsNonEmptyString(v) == v.t = "string" /\ \E i \in 1..Len(v.s) : ~IsWhiteSpace(v.s[i])

\* C6, as stated: each entry contributes the trimmed value of its first
\* field among name, tool, id that is a non-empty string, also when an
\* earlier field is present and is no non-empty string.
C6_FirstNonEmptyString ==
    pc = "cover" =>
       \A i \in 1..Len(ToolsOf(manifest)) :
          LET fields == FieldsInOrder(ToolsOf(manifest)[i])
          IN  \A k \in 1..3 :
                 (/\ IsNonEmptyString(fields[k])
                  /\ \A j \in 1..(k - 1) : ~IsNonEmptyString(fields[j]))
                 => Trim(fields[k].s) \in Range(toolNames)

\* the names the entries contribute
Contributed == Range(PushNames(ToolsOf(manifest)))

Permuted(m, f) == [m EXCEPT !.items = [i \in 1..Len(m.items) |-> m.items[f[i]]]]

\* C7: the extracted list is in strictly ascending order of code units, so
\* holds no name twice; it holds exactly the names the entries contribute,
\* each once; and it is the same for every order of the entries.
C7_SortedUnique ==
    pc = "cover" =>
       /\ \A i \in 1..(Len(toolNames) - 1) :
             /\ LexLess(toolNames[i], toolNames[i + 1])
             /\ ~LexLess(toolNames[i + 1], toolNames[i])
       /\ \A i, j \in 1..Len(toolNames) : toolNames[i] = toolNames[j] => i = j
       /\ Range(toolNames) = Contributed
       /\ manifest.kind \notin {"array", "object"} => toolNames = <<>>
       /\ \A f \in Permutations(1..Len(manifest.items)) :
             extractToolNames(Permuted(manifest, f)) = toolNames

\* the same name under tool in the first entry and, with a blank before it,
\* under name in the second: it is extracted once
C7_Witness ==
    /\ pc = "cover"
    /\ manifest.kind = "object"
    /\ Len(manifest.items) = 2
    /\ manifest.items[1].name = Undefined
    /\ manifest.items[1].tool = JsString(<<"a">>)
    /\ manifest.items[2].name = JsString(<<" ", "a">>)
    /\ toolNames = <<<<"a">>>>

\* C8, as stated: a parse failure names the source, URL or file path, whose
\* content failed to parse.
C8_ParseErrorNamesSource ==
    err.kind = "parse" => Len(consulted) = 1 /\ err.names = consulted[1]

TracePrefix == <<"toolsCheck", "load", "coverWalk", "bannedWalk">>

HasToolsEntry == \E i \in 1..Len(fs) : fs[i].name = <<"t","o","o","l","s">>

Kinds(stream) == { out[i].kind : i \in { j \in 1..Len(out) : out[j].stream = stream } }

\* C9: the steps come in the order tools/ check, manifest resolution,
\* coverage walk, banned-domain walk; with tools/ absent or an error thrown
\* no walk is performed, nothing is reported but the failure, and the run
\* ends with exit code 1.
C9_NoScanAfterFailure ==
    /\ Len(trace) <= Len(TracePrefix)
    /\ trace = SubSeq(TracePrefix, 1, Len(trace))
    /\ (~HasToolsEntry \/ err # NoError) =>
         /\ ~Performed("coverWalk") /\ ~Performed("bannedWalk")
         /\ missing = <<>> /\ bannedHits = <<>>
         /\ Kinds("stdout") = {}
         /\ Kinds("stderr") \subseteq {"failedHeader", "failedError"}
         /\ pc = "exited" =>
               exitCode = 1 /\ Kinds("stderr") = {"failedHeader", "failedError"}
    /\ (~HasToolsEntry /\ pc # "main") => err.kind = "missingToolsDir"

\* no source is available in a repository whose documents would fail both
\* checks: the run has ended on the resolution error
C9_Witness ==
    /\ pc = "exited"
    /\ err.kind = "resolution"
    /\ HasToolsEntry
    /\ \E f \in ScannedFiles : Includes(f.text, StatusDomain)
    /\ exitCode = 1

Items(kind) ==
    SelectSeq(out, LAMBDA l : l.kind = kind)

\* C10: once main reports, both scans have run; a run that ends without an
\* error has printed every missing name and every hit, in order, each block
\* under its header; the process leaves with 1 only with the blocks of both
\* lists already printed; the summary line is printed only in a run with no
\* violation, and that run ends with 0.
C10_DeferredFailure ==
    /\ (pc \in {"report", "resolved"} \/ (pc = "exited" /\ err = NoError)) =>
          Performed("coverWalk") /\ Performed("bannedWalk")
    /\ (pc \in {"resolved", "exited"} /\ err = NoError) =>
          /\ [i \in 1..Len(Items("missingItem")) |-> Items("missingItem")[i].name]
                = missing
          /\ [i \in 1..Len(Items("bannedItem")) |-> Items("bannedItem")[i].hit]
                = bannedHits
          /\ Len(Items("missingHeader")) = (IF missing = <<>> THEN 0 ELSE 1)
          /\ Len(Items("bannedHeader")) = (IF bannedHits = <<>> THEN 0 ELSE 1)
          /\ missing = checkToolsCovered(toolNames, ToolsDocsRoot).missing
          /\ bannedHits = findBannedDomains(RepoRoot)
    /\ "ok" \in Kinds("stdout") =>
          /\ Kinds("stderr") = {}
          /\ missing = <<>> /\ bannedHits = <<>>
          /\ pc = "exited" => exitCode = 0

\* a run that found a missing tool and a banned domain has printed both
\* blocks and left with 1
C10_Witness ==
    /\ pc = "exited"
    /\ err = NoError
    /\ missing # <<>>
    /\ bannedHits # <<>>
    /\ Len(Items("missingItem")) = Len(missing)
    /\ Len(Items("bannedItem")) = Len(bannedHits)
    /\ exitCode = 1

====
